---- MODULE Spec2Model ----
(***************************************************************************)
(* Privacy-preserving k-NN (ppknn): the comparator buffers of              *)
(* src/comparator.rs (ClearCmp, EncCmp), the homomorphic kernel of         *)
(* src/lib.rs (accumulator, min, arg_min, distances, query) in noise-free  *)
(* plaintext semantics, and the Batcher top-k sorter that drives a Cmp     *)
(* buffer through cmp_at / swap.                                           *)
(***************************************************************************)
EXTENDS Integers, Sequences, FiniteSets, Bags, TLC

VARIABLES
    pc,         \* position of the driver: "sort", "done", "cmp", "dist", ...
    impl,       \* which impl of Cmp owns the buffer: "clear" | "enc" | "none"
    vs,         \* Cmp buffer (ClearCmp.vs / EncCmp.vs)
    cmp_count,  \* Cmp counter (ClearCmp.cmp_count / EncCmp.cmp_count)
    k,          \* BatcherSort.k
    net,        \* the cmp_at / swap calls the sorter issues for (len, k), in order
    ip,         \* number of calls of net already issued
    input,      \* the buffer as handed to the sorter
    log,        \* calls received by the buffer so far
    twin,       \* a second ClearCmp run of the same (len, k) on other data
    out,        \* result of the last kernel call made on its own (min, arg_min, PBS)
    build,      \* "release": integer overflow wraps; "debug": it panics
    rows,       \* the data handed to setup_with_data
    target,     \* the target handed to make_query
    server,     \* KnnServer.gamma and KnnServer.data
    query,      \* the two query ciphertexts returned by make_query
    distances,  \* the ciphertexts returned by compute_distances
    key_file,   \* contents of the key file DUMMY_KEY
    key_log,    \* the read_or_gen_keys calls made so far, with their outcomes
    par,        \* progress of a run whose layers are executed by concurrent workers
    tags        \* per position: refreshed or not, and comparisons that touched the item

sorterVars == <<impl, vs, cmp_count, k, net, ip, input, log, twin>>

distVars == <<build, rows, target, server, query, distances>>

keyVars == <<key_file, key_log>>

vars == <<pc, impl, vs, cmp_count, k, net, ip, input, log, twin, out,
          build, rows, target, server, query, distances,
          key_file, key_log, par, tags>>

----------------------------------------------------------------------------
(* Bounds of the model *)

MaxN == 4        \* longest buffer of the exhaustive clear runs
MaxVal == 2      \* clear values are drawn from 0..MaxVal
WideN == 11      \* buffer length of the wide clear / encrypted runs
WideK == 6       \* k of the wide clear / encrypted runs
PairMaxN == 4    \* longest buffer of the paired runs
LogP == 3        \* message modulus p = 2^LogP
LogChunk == 1    \* N / p = 2^LogChunk coefficients per plaintext slot
WordBits == 12   \* width of a ciphertext word (torus scalar)
EncMaxN == 3     \* longest buffer of the exhaustive encrypted runs
MaxGamma == 2    \* longest model row / target of the exhaustive distance runs
MaxEntry == 1    \* model entries are drawn from 0..MaxEntry
MaxTarget == 2   \* target entries are drawn from 0..MaxTarget
MaxClass == 7    \* largest class label of the kernel runs (all of [0, p) for LogP = 3)
NoiseMaxN == 5   \* longest buffer of the noise-tagging runs
ParMaxN == 4     \* longest buffer of the exhaustive parallel runs
ParWideN == 8    \* buffer length of the parallel runs with layers of several calls
NumParams == 2   \* parameter sets a caller can ask keys for
MaxKeyCalls == 4 \* read_or_gen_keys calls in one run

----------------------------------------------------------------------------
(* Helpers *)

Min2(a, b) == IF a < b THEN a ELSE b

RECURSIVE Pow2(_)
Pow2(e) == IF e = 0 THEN 1 ELSE 2 * Pow2(e - 1)

\* smallest power of two >= x  (2^ceil(log2 x))
RECURSIVE NextPow2From(_, _)
NextPow2From(x, p) == IF p >= x THEN p ELSE NextPow2From(x, 2 * p)

Range0(lo, len) == [t \in 1..len |-> lo + t - 1]

Take(s, m) == SubSeq(s, 1, Min2(m, Len(s)))

RECURSIVE Concat(_)
Concat(ss) == IF ss = <<>> THEN <<>> ELSE Head(ss) \o Concat(Tail(ss))

SeqToBag(s) ==
    LET vals == {s[t] : t \in DOMAIN s}
    IN  [v \in vals |-> Cardinality({t \in DOMAIN s : s[t] = v})]

\* ascending insertion sort of a sequence of integers
RECURSIVE InsertSorted(_, _)
InsertSorted(s, x) ==
    IF s = <<>> THEN <<x>>
    ELSE IF x <= Head(s) THEN <<x>> \o s
    ELSE <<Head(s)>> \o InsertSorted(Tail(s), x)

RECURSIVE Sorted(_)
Sorted(s) == IF s = <<>> THEN <<>> ELSE InsertSorted(Sorted(Tail(s)), Head(s))

----------------------------------------------------------------------------
(* Batcher top-k sorter: the index schedule *)

CmpOp(i, j) == [op |-> "cmp", i |-> i, j |-> j]
SwapOp(i, j) == [op |-> "swap", i |-> i, j |-> j]

\* elements at even / odd offsets (0-based) of an index list
EvenIx(s) == [t \in 1..((Len(s) + 1) \div 2) |-> s[2 * t - 1]]
OddIx(s) == [t \in 1..(Len(s) \div 2) |-> s[2 * t]]

\* number of interleaved compare positions
WMax(even_all, odd_all) ==
    (Len(even_all) \div 2) + (Len(odd_all) \div 2)
      - (IF Len(even_all) % 2 = 0 /\ Len(odd_all) % 2 = 0 THEN 1 ELSE 0)

\* step 4: compare-exchange (odd_all[w-1], even_all[w]) when a local rank < L
Interleave(even_all, odd_all, output_len) ==
    LET ws == SelectSeq(Range0(1, WMax(even_all, odd_all)),
                        LAMBDA w : 2 * w - 1 < output_len)
    IN  [t \in 1..Len(ws) |-> CmpOp(odd_all[ws[t]], even_all[ws[t] + 1])]

\* step 5: swap (B[0],B[1]), (B[2],B[3]), ...
Realign(ix_b) == [t \in 1..(Len(ix_b) \div 2) |-> SwapOp(ix_b[2 * t - 1], ix_b[2 * t])]

RECURSIVE MergeRec(_, _, _)
MergeRec(ix_a, ix_b, output_len) ==
    IF Len(ix_a) * Len(ix_b) = 0 THEN <<>>
    ELSE IF Len(ix_a) * Len(ix_b) = 1 THEN <<CmpOp(ix_a[1], ix_b[1])>>
    ELSE
      LET A == Take(ix_a, output_len)
          B == Take(ix_b, output_len)
          odd_output_len == output_len \div 2        \* ceil((L-1)/2)
          even_output_len == output_len - odd_output_len
          even_all == EvenIx(A) \o EvenIx(B)
          odd_all == OddIx(A) \o OddIx(B)
      IN  MergeRec(EvenIx(A), EvenIx(B), even_output_len)
            \o MergeRec(OddIx(A), OddIx(B), odd_output_len)
            \o Interleave(even_all, odd_all, output_len)
            \o (IF Len(A) % 2 = 1 THEN Realign(B) ELSE <<>>)

RECURSIVE SortRec(_, _)
SortRec(ix, kk) ==
    IF Len(ix) <= 1 THEN <<>>
    ELSE
      LET left == SubSeq(ix, 1, Len(ix) \div 2)
          right == SubSeq(ix, Len(ix) \div 2 + 1, Len(ix))
      IN  SortRec(left, kk) \o SortRec(right, kk) \o MergeRec(left, right, kk)

ChunkSize(kk) == IF kk = 1 THEN 2 ELSE NextPow2From(kk, 1)

SplitIndices(len, kk) ==
    LET s == ChunkSize(kk)
        cnt == (len + s - 1) \div s
    IN  [c \in 1..cnt |-> Range0((c - 1) * s, Min2(s, len - (c - 1) * s))]

\* one round: merge chunks (0,1), (2,3), ...; an unpaired last chunk is kept
TournamentRoundOps(chunks, kk) ==
    Concat([p \in 1..(Len(chunks) \div 2) |->
              MergeRec(chunks[2 * p - 1], chunks[2 * p],
                       Min2(kk, Len(chunks[2 * p - 1]) + Len(chunks[2 * p])))])

TournamentRoundChunks(chunks) ==
    [p \in 1..((Len(chunks) + 1) \div 2) |->
        IF 2 * p <= Len(chunks) THEN chunks[2 * p - 1] \o chunks[2 * p]
        ELSE chunks[2 * p - 1]]

RECURSIVE TournamentMerge(_, _)
TournamentMerge(chunks, kk) ==
    IF Len(chunks) <= 1 THEN <<>>
    ELSE TournamentRoundOps(chunks, kk)
           \o TournamentMerge(TournamentRoundChunks(chunks), kk)

\* BatcherSort::sort: the calls issued on a buffer of length len
SortOps(len, kk) ==
    LET chunks == SplitIndices(len, kk)
    IN  Concat([c \in 1..Len(chunks) |-> SortRec(chunks[c], kk)])
          \o TournamentMerge(chunks, kk)

\* BatcherSort::merge: merge the two halves of the buffer
MergeOps(len, kk) ==
    MergeRec(Range0(0, len \div 2), Range0(len \div 2, len - len \div 2), kk)

\* the same schedule cut into layers: the compare loop of one merge (step 4),
\* its realigning swaps (step 5) and a single compare-exchange (step 1) are
\* one layer each; empty layers are dropped
Layer(ops) == IF ops = <<>> THEN <<>> ELSE <<ops>>

RECURSIVE MergeLayers(_, _, _)
MergeLayers(ix_a, ix_b, output_len) ==
    IF Len(ix_a) * Len(ix_b) = 0 THEN <<>>
    ELSE IF Len(ix_a) * Len(ix_b) = 1 THEN <<<<CmpOp(ix_a[1], ix_b[1])>>>>
    ELSE
      LET A == Take(ix_a, output_len)
          B == Take(ix_b, output_len)
          odd_output_len == output_len \div 2
          even_output_len == output_len - odd_output_len
          even_all == EvenIx(A) \o EvenIx(B)
          odd_all == OddIx(A) \o OddIx(B)
      IN  MergeLayers(EvenIx(A), EvenIx(B), even_output_len)
            \o MergeLayers(OddIx(A), OddIx(B), odd_output_len)
            \o Layer(Interleave(even_all, odd_all, output_len))
            \o (IF Len(A) % 2 = 1 THEN Layer(Realign(B)) ELSE <<>>)

RECURSIVE SortRecLayers(_, _)
SortRecLayers(ix, kk) ==
    IF Len(ix) <= 1 THEN <<>>
    ELSE
      LET left == SubSeq(ix, 1, Len(ix) \div 2)
          right == SubSeq(ix, Len(ix) \div 2 + 1, Len(ix))
      IN  SortRecLayers(left, kk) \o SortRecLayers(right, kk)
            \o MergeLayers(left, right, kk)

TournamentRoundLayers(chunks, kk) ==
    Concat([p \in 1..(Len(chunks) \div 2) |->
              MergeLayers(chunks[2 * p - 1], chunks[2 * p],
                          Min2(kk, Len(chunks[2 * p - 1]) + Len(chunks[2 * p])))])

RECURSIVE TournamentLayers(_, _)
TournamentLayers(chunks, kk) ==
    IF Len(chunks) <= 1 THEN <<>>
    ELSE TournamentRoundLayers(chunks, kk)
           \o TournamentLayers(TournamentRoundChunks(chunks), kk)

\* a schedule that takes the whole sort for one layer
SortLayersUnsplit(len, kk) == Layer(SortOps(len, kk))

\* a schedule that runs the layers last to first
SortLayersBackwards(len, kk) ==
    LET chunks == SplitIndices(len, kk)
        layers == Concat([c \in 1..Len(chunks) |-> SortRecLayers(chunks[c], kk)])
                    \o TournamentLayers(chunks, kk)
    IN  [l \in 1..Len(layers) |-> layers[Len(layers) + 1 - l]]

\* the layers of BatcherSort::sort on a buffer of length len
SortLayers(len, kk) ==
    LET chunks == SplitIndices(len, kk)
    IN  Concat([c \in 1..Len(chunks) |-> SortRecLayers(chunks[c], kk)])
          \o TournamentLayers(chunks, kk)

----------------------------------------------------------------------------
(* ClearCmp *)

SwapAt(s, i, j) ==
    [t \in 1..Len(s) |-> IF t = i + 1 THEN s[j + 1]
                         ELSE IF t = j + 1 THEN s[i + 1] ELSE s[t]]

\* cmp_at that counts only the comparisons that exchange
ClearCmpAtCountExchanges(c, i, j) ==
    IF c.vs[i + 1] > c.vs[j + 1]
    THEN [vs |-> SwapAt(c.vs, i, j), cmp_count |-> c.cmp_count + 1]
    ELSE c

\* cmp_at that leaves the counter alone
ClearCmpAtNoCount(c, i, j) ==
    [vs |-> IF c.vs[i + 1] > c.vs[j + 1] THEN SwapAt(c.vs, i, j) ELSE c.vs,
     cmp_count |-> c.cmp_count]

\* ClearCmp::cmp_at on the pair [vs, cmp_count]
ClearCmpAt(c, i, j) ==
    [vs |-> IF c.vs[i + 1] > c.vs[j + 1] THEN SwapAt(c.vs, i, j) ELSE c.vs,
     cmp_count |-> c.cmp_count + 1]

\* ClearCmp::swap
ClearSwap(c, i, j) == [vs |-> SwapAt(c.vs, i, j), cmp_count |-> c.cmp_count]

ClearApply(c, o) ==
    IF o.op = "cmp" THEN ClearCmpAt(c, o.i, o.j) ELSE ClearSwap(c, o.i, o.j)

----------------------------------------------------------------------------
(* Parameters and noise-free ciphertexts.  A ciphertext is modelled by the  *)
(* word it decrypts to before decoding (body - <mask, key>); every kernel   *)
(* operation is linear in it or a table lookup on it.                       *)

message_modulus == Pow2(LogP)
carry_modulus == 1
polynomial_size == message_modulus * Pow2(LogChunk)
WordMod == Pow2(WordBits)

\* (1_u64 << 63) / (message_modulus * carry_modulus)
delta == (WordMod \div 2) \div (message_modulus * carry_modulus)

WAdd(a, b) == (a + b) % WordMod
WSub(a, b) == (a + WordMod - b) % WordMod
WNeg(a) == (WordMod - a) % WordMod
WMul(a, b) == (a * b) % WordMod

\* ClientKey::encrypt: message reduced mod p, scaled by delta, padding bit 0
Encrypt(m) == (m % message_modulus) * delta

\* ClientKey::decrypt: round to the nearest multiple of delta, drop the
\* padding bit
Decrypt(ct) == (WAdd(ct, delta \div 2) \div delta) % message_modulus

\* the plaintext with its padding bit (message and carry)
DecryptWithPadding(ct) == WAdd(ct, delta \div 2) \div delta

raw_sub(lhs, rhs) == WSub(lhs, rhs)
raw_add(lhs, rhs) == WAdd(lhs, rhs)

\* special_sub with the operands of the raw subtraction exchanged
special_sub_exchanged(a, b) ==
    WAdd(raw_sub(a, b), (message_modulus \div 2) * delta)

\* KnnServer::special_sub
special_sub(a, b) ==
    WAdd(raw_sub(b, a), (message_modulus \div 2) * delta)

\* sum of s[1..i] as a wrapping word
RECURSIVE SumWRange(_, _, _)
SumWRange(s, lo, hi) ==
    IF lo > hi THEN 0
    ELSE IF lo = hi THEN s[lo] % WordMod
    ELSE WAdd(SumWRange(s, lo, (lo + hi) \div 2), SumWRange(s, (lo + hi) \div 2 + 1, hi))

SumW(s, i) == SumWRange(s, 1, i)

\* polynomial_wrapping_mul: product modulo X^N + 1 (coefficient t is at t + 1)
polynomial_wrapping_mul(lhs, rhs) ==
    [t \in 1..polynomial_size |->
        SumW([i \in 1..polynomial_size |->
                IF i <= t THEN WMul(lhs[i], rhs[t - i + 1])
                ELSE WNeg(WMul(lhs[i], rhs[t - i + 1 + polynomial_size]))],
             polynomial_size)]

polynomial_wrapping_add(lhs, rhs) ==
    [t \in 1..polynomial_size |-> WAdd(lhs[t], rhs[t])]

\* private functional packing keyswitch: the message goes to the constant
\* coefficient
lwe_to_glwe(ct) == [t \in 1..polynomial_size |-> IF t = 1 THEN ct ELSE 0]

polynomial_glwe_mul(glwe, poly) == polynomial_wrapping_mul(glwe, poly)

\* negate the first chunk_size / 2 coefficients, then rotate left by as much
NegateRotate(tmp) ==
    LET r == (polynomial_size \div message_modulus) \div 2
        neg == [t \in 1..polynomial_size |-> IF t <= r THEN WNeg(tmp[t]) ELSE tmp[t]]
    IN  [t \in 1..polynomial_size |-> neg[((t - 1 + r) % polynomial_size) + 1]]

\* left polynomial without the rotation
left_poly_unrotated ==
    LET r == (polynomial_size \div message_modulus) \div 2
    IN  [t \in 1..polynomial_size |->
            IF t <= r THEN WNeg(1)
            ELSE IF t <= polynomial_size \div 2 THEN 1 ELSE 0]

\* X^0 + ... + X^{N/2-1}, negated and rotated
left_poly ==
    NegateRotate([t \in 1..polynomial_size |-> IF t <= polynomial_size \div 2 THEN 1 ELSE 0])

\* X^{N/2} + ... + X^{N-1}, negated and rotated
right_poly ==
    NegateRotate([t \in 1..polynomial_size |-> IF t <= polynomial_size \div 2 THEN 0 ELSE 1])

\* KnnServer::double_glwe_acc
double_glwe_acc(left_glwe, right_glwe) ==
    polynomial_wrapping_add(polynomial_glwe_mul(left_glwe, left_poly),
                            polynomial_glwe_mul(right_glwe, right_poly))

\* KnnServer::double_ct_acc
double_ct_acc(left_lwe, right_lwe) ==
    double_glwe_acc(lwe_to_glwe(left_lwe), lwe_to_glwe(right_lwe))

\* modulus switch of a word to Z_{2N}, rounding to nearest
ModSwitch(ct) ==
    ((ct * 2 * polynomial_size + WordMod \div 2) \div WordMod) % (2 * polynomial_size)

\* ServerKey::keyswitch_programmable_bootstrap: constant coefficient of
\* X^{-ModSwitch(ct)} * acc modulo X^N + 1
keyswitch_programmable_bootstrap(ct, acc) ==
    LET r == ModSwitch(ct)
    IN  IF r < polynomial_size THEN acc[r + 1]
        ELSE WNeg(acc[r - polynomial_size + 1])

\* the difference of min taken the other way round
min_diff_exchanged(a, b) == special_sub(a, b)

\* the difference looked up by min(a, b): special_sub(&b, &a)
min_diff(a, b) == special_sub(b, a)

\* KnnServer::min
min(a, b) == keyswitch_programmable_bootstrap(min_diff(a, b), double_ct_acc(a, b))

\* arg_min with the accumulator built over (j, i)
arg_min_exchanged(a, b, i, j) ==
    keyswitch_programmable_bootstrap(special_sub(b, a), double_ct_acc(j, i))

\* KnnServer::arg_min
arg_min(a, b, i, j) ==
    keyswitch_programmable_bootstrap(special_sub(b, a), double_ct_acc(i, j))

----------------------------------------------------------------------------
(* EncCmp *)

EncItem(value, class) == [value |-> value, class |-> class]

\* enc_vec
enc_vec(pairs) == [t \in 1..Len(pairs) |-> EncItem(Encrypt(pairs[t][1]), Encrypt(pairs[t][2]))]

\* EncItem::decrypt
DecryptItem(item) == <<Decrypt(item.value), Decrypt(item.class)>>

DecryptAll(items) == [t \in 1..Len(items) |-> DecryptItem(items[t])]

\* cmp_at that leaves the class of the larger item where it was
EncCmpAtKeepClass(c, i, j) ==
    LET x_i == c.vs[i + 1]
        x_j == c.vs[j + 1]
        min_value == min(x_i.value, x_j.value)
        min_class == arg_min(x_i.value, x_j.value, x_i.class, x_j.class)
        max_value == raw_sub(raw_add(x_i.value, x_j.value), min_value)
        vs1 == [c.vs EXCEPT ![i + 1] = EncItem(min_value, min_class)]
    IN  [vs |-> [vs1 EXCEPT ![j + 1] = EncItem(max_value, x_j.class)],
         cmp_count |-> c.cmp_count]

\* cmp_at that leaves the sum of the two classes in slot j
EncCmpAtSumClass(c, i, j) ==
    LET x_i == c.vs[i + 1]
        x_j == c.vs[j + 1]
        min_value == min(x_i.value, x_j.value)
        min_class == arg_min(x_i.value, x_j.value, x_i.class, x_j.class)
        max_value == raw_sub(raw_add(x_i.value, x_j.value), min_value)
        max_class == raw_add(x_i.class, x_j.class)
        vs1 == [c.vs EXCEPT ![i + 1] = EncItem(min_value, min_class)]
    IN  [vs |-> [vs1 EXCEPT ![j + 1] = EncItem(max_value, max_class)],
         cmp_count |-> c.cmp_count]

\* EncCmp::cmp_at on the pair [vs, cmp_count]
EncCmpAt(c, i, j) ==
    LET x_i == c.vs[i + 1]
        x_j == c.vs[j + 1]
        min_value == min(x_i.value, x_j.value)
        min_class == arg_min(x_i.value, x_j.value, x_i.class, x_j.class)
        max_value == raw_sub(raw_add(x_i.value, x_j.value), min_value)
        max_class == raw_sub(raw_add(x_i.class, x_j.class), min_class)
        vs1 == [c.vs EXCEPT ![i + 1] = EncItem(min_value, min_class)]
    IN  [vs |-> [vs1 EXCEPT ![j + 1] = EncItem(max_value, max_class)],
         cmp_count |-> c.cmp_count]

\* EncCmp::swap
EncSwap(c, i, j) == [vs |-> SwapAt(c.vs, i, j), cmp_count |-> c.cmp_count]

----------------------------------------------------------------------------
(* Exhaustive clear runs *)

NoOut == [op |-> "none", x |-> 0, ct |-> 0]

\* setup(): no data, gamma = 0
NoServer == [gamma |-> 0, data |-> <<>>]

\* fs::read(DUMMY_KEY) fails: there is no key file
NoFile == [exists |-> FALSE, blob |-> <<>>]

\* no distance request, key loading, parallel run or noise tagging in progress
NoDist ==
    /\ build = "release" /\ rows = <<>> /\ target = <<>>
    /\ server = NoServer /\ query = <<>> /\ distances = <<>>
    /\ key_file = NoFile /\ key_log = <<>> /\ par = <<>> /\ tags = <<>>

NoTwin == [vs |-> <<>>, cmp_count |-> 0, log |-> <<>>, ip |-> 0, input |-> <<>>]

InitClear(lens, ks, vals) ==
    \E len \in lens : \E kk \in ks : \E xs \in [1..len -> vals] :
        /\ kk <= len
        /\ pc = "sort"
        /\ impl = "clear"
        /\ vs = xs
        /\ cmp_count = 0
        /\ k = kk
        /\ net = SortOps(len, kk)
        /\ ip = 0
        /\ input = xs
        /\ log = <<>>
        /\ twin = NoTwin
        /\ out = NoOut /\ NoDist

Init == InitClear(1..MaxN, 1..MaxN, 0..MaxVal)

\* the sorter calls cmp_at on the clear buffer
ClearCmpStep ==
    /\ pc \in {"sort", "merge"} /\ impl = "clear" /\ twin = NoTwin
    /\ ip < Len(net)
    /\ net[ip + 1].op = "cmp"
    /\ LET c == ClearCmpAt([vs |-> vs, cmp_count |-> cmp_count],
                           net[ip + 1].i, net[ip + 1].j)
       IN  vs' = c.vs /\ cmp_count' = c.cmp_count
    /\ ip' = ip + 1
    /\ log' = Append(log, net[ip + 1])
    /\ UNCHANGED <<pc, impl, k, net, input, twin, out, distVars, keyVars, par, tags>>

\* the sorter calls swap on the clear buffer
ClearSwapStep ==
    /\ pc \in {"sort", "merge"} /\ impl = "clear" /\ twin = NoTwin
    /\ ip < Len(net)
    /\ net[ip + 1].op = "swap"
    /\ LET c == ClearSwap([vs |-> vs, cmp_count |-> cmp_count],
                          net[ip + 1].i, net[ip + 1].j)
       IN  vs' = c.vs /\ cmp_count' = c.cmp_count
    /\ ip' = ip + 1
    /\ log' = Append(log, net[ip + 1])
    /\ UNCHANGED <<pc, impl, k, net, input, twin, out, distVars, keyVars, par, tags>>

\* sort() / merge() returns
SortReturn ==
    /\ pc \in {"sort", "merge"}
    /\ twin = NoTwin
    /\ ip = Len(net)
    /\ pc' = (IF pc = "sort" THEN "sorted" ELSE "merged")
    /\ UNCHANGED <<sorterVars, out, distVars, keyVars, par, tags>>

Next == ClearCmpStep \/ ClearSwapStep \/ SortReturn

Spec == Init /\ [][Next]_vars

----------------------------------------------------------------------------
(* Wide clear runs: one (len, k), all 0/1 inputs *)

InitWide == InitClear({WideN}, {WideK}, {0, 1})

SpecWide == InitWide /\ [][Next]_vars

\* C1: when the sort of a clear buffer returns, positions [0,k) hold
\* sorted(input)[0..k], in ascending order.
C1_TopKSound ==
    pc = "sorted" /\ impl = "clear" => Take(vs, k) = Take(Sorted(input), k)

\* C10: every call keeps the buffer a permutation of the input, and when the
\* sort returns positions [k,n) hold the items that are not among the k
\* smallest, i.e. the multiset sorted(input)[k..n).
C10_PermutationAndRest ==
    impl = "clear" /\ twin = NoTwin =>
        /\ SeqToBag(vs) = SeqToBag(input)
        /\ pc = "sorted" =>
              SeqToBag(SubSeq(vs, k + 1, Len(vs)))
                = SeqToBag(SubSeq(Sorted(input), k + 1, Len(input)))

----------------------------------------------------------------------------
(* Paired clear runs: two buffers of the same length sorted with the same k *)

InitPair ==
    \E len \in 1..PairMaxN : \E kk \in 1..len :
    \E xs \in [1..len -> {0, 1}] : \E ys \in [1..len -> {0, 1}] :
        /\ pc = "sort"
        /\ impl = "clear"
        /\ vs = xs
        /\ cmp_count = 0
        /\ k = kk
        /\ net = SortOps(len, kk)
        /\ ip = 0
        /\ input = xs
        /\ log = <<>>
        /\ twin = [vs |-> ys, cmp_count |-> 0, log |-> <<>>, ip |-> 0, input |-> ys]
        /\ out = NoOut /\ NoDist

\* the first sorter issues its next call
PairFirstStep ==
    /\ pc = "sort" /\ impl = "clear" /\ twin # NoTwin
    /\ ip < Len(net)
    /\ LET c == ClearApply([vs |-> vs, cmp_count |-> cmp_count], net[ip + 1])
       IN  vs' = c.vs /\ cmp_count' = c.cmp_count
    /\ ip' = ip + 1
    /\ log' = Append(log, net[ip + 1])
    /\ UNCHANGED <<pc, impl, k, net, input, twin, out, distVars, keyVars, par, tags>>

\* the second sorter issues its next call
PairSecondStep ==
    /\ pc = "sort" /\ impl = "clear" /\ twin # NoTwin
    /\ twin.ip < Len(net)
    /\ LET o == net[twin.ip + 1]
           c == ClearApply([vs |-> twin.vs, cmp_count |-> twin.cmp_count], o)
       IN  twin' = [twin EXCEPT !.vs = c.vs, !.cmp_count = c.cmp_count,
                                !.log = Append(twin.log, o), !.ip = twin.ip + 1]
    /\ UNCHANGED <<pc, impl, vs, cmp_count, k, net, ip, input, log, out, distVars, keyVars, par, tags>>

\* both sorts return
PairReturn ==
    /\ pc = "sort" /\ twin # NoTwin
    /\ ip = Len(net) /\ twin.ip = Len(net)
    /\ pc' = "sorted"
    /\ UNCHANGED <<sorterVars, out, distVars, keyVars, par, tags>>

NextPair == PairFirstStep \/ PairSecondStep \/ PairReturn

SpecPair == InitPair /\ [][NextPair]_vars

----------------------------------------------------------------------------
(* Reference runs: the (len, k) pairs of the comparison-count table *)

RefCases == {<<4, 2>>, <<8, 2>>, <<16, 2>>, <<10, 3>>, <<8, 4>>, <<8, 6>>}

RefMergeInput == <<1, 5, 6, 7, 2, 3, 4, 5>>

Descending(len) == [t \in 1..len |-> len + 1 - t]

InitRef ==
    /\ impl = "clear"
    /\ cmp_count = 0
    /\ ip = 0
    /\ log = <<>>
    /\ twin = NoTwin
    /\ out = NoOut /\ NoDist
    /\ \/ \E nk \in RefCases : \E xs \in {Descending(nk[1]), [t \in 1..nk[1] |-> 0]} :
            /\ pc = "sort"
            /\ vs = xs /\ input = xs
            /\ k = nk[2]
            /\ net = SortOps(nk[1], nk[2])
       \/ \E kk \in {4, 6} :
            /\ pc = "merge"
            /\ vs = RefMergeInput /\ input = RefMergeInput
            /\ k = kk
            /\ net = MergeOps(Len(RefMergeInput), kk)

SpecRef == InitRef /\ [][Next]_vars

----------------------------------------------------------------------------
(* Claims on the clear sorter *)

C8_RefCountsAsStated ==
    /\ pc = "sorted" =>
          /\ (Len(vs) = 4 /\ k = 2 => cmp_count = 5)
          /\ (Len(vs) = 8 /\ k = 2 => cmp_count = 13)
          /\ (Len(vs) = 16 /\ k = 2 => cmp_count = 29)
          /\ (Len(vs) = 10 /\ k = 3 => cmp_count = 20)
          /\ (Len(vs) = 8 /\ k = 4 => cmp_count = 8)
          /\ (Len(vs) = 8 /\ k = 6 => cmp_count = 9)
    /\ pc = "merged" /\ k = 4 => Take(vs, 4) = <<1, 2, 3, 4>> /\ cmp_count = 8

\* C8 amended: the sorter reports 5, 13, 29, 20 for (4,2), (8,2), (16,2), (10,3)
\* and 18, 19 for (8,4), (8,6); 8 and 9 are the counts of the merge of two
\* sorted halves of 8 items with k = 4 and k = 6, and the merge of
\* [1,5,6,7,2,3,4,5] with k = 4 leaves [1,2,3,4] in front.
C8_RefCounts ==
    /\ pc = "sorted" =>
          /\ (Len(vs) = 4 /\ k = 2 => cmp_count = 5)
          /\ (Len(vs) = 8 /\ k = 2 => cmp_count = 13)
          /\ (Len(vs) = 16 /\ k = 2 => cmp_count = 29)
          /\ (Len(vs) = 10 /\ k = 3 => cmp_count = 20)
          /\ (Len(vs) = 8 /\ k = 4 => cmp_count = 18)
          /\ (Len(vs) = 8 /\ k = 6 => cmp_count = 19)
    /\ pc = "merged" =>
          /\ (k = 4 => Take(vs, 4) = <<1, 2, 3, 4>> /\ cmp_count = 8)
          /\ (k = 6 => Take(vs, 6) = <<1, 2, 3, 4, 5, 5>> /\ cmp_count = 9)

\* the (16,2) sort of the all-zero buffer returned with its 29 comparisons
C8_Witness ==
    pc = "sorted" /\ Len(vs) = 16 /\ k = 2 /\ vs = input /\ cmp_count = 29

----------------------------------------------------------------------------
(* Kernel calls on two encrypted items (a, i) and (b, j) *)

InitKernel ==
    \E a \in 0..(message_modulus \div 2 - 1) : \E b \in 0..(message_modulus \div 2 - 1) :
    \E i \in 0..Min2(message_modulus - 1, MaxClass) :
    \E j \in 0..Min2(message_modulus - 1, MaxClass) :
        /\ pc = "kernel"
        /\ impl = "enc"
        /\ vs = enc_vec(<< <<a, i>>, <<b, j>> >>)
        /\ cmp_count = 0
        /\ k = 1
        /\ net = <<>>
        /\ ip = 0
        /\ input = << <<a, i>>, <<b, j>> >>
        /\ log = <<>>
        /\ twin = NoTwin
        /\ out = NoOut /\ NoDist

\* server.min(enc(a), enc(b))
MinCall ==
    /\ pc = "kernel"
    /\ out' = [op |-> "min", x |-> 0, ct |-> min(vs[1].value, vs[2].value)]
    /\ pc' = "returned"
    /\ UNCHANGED <<sorterVars, distVars, keyVars, par, tags>>

\* server.arg_min(enc(a), enc(b), enc(i), enc(j))
ArgMinCall ==
    /\ pc = "kernel"
    /\ out' = [op |-> "arg_min", x |-> 0,
               ct |-> arg_min(vs[1].value, vs[2].value, vs[1].class, vs[2].class)]
    /\ pc' = "returned"
    /\ UNCHANGED <<sorterVars, distVars, keyVars, par, tags>>

\* bootstrap of enc(x) against double_ct_acc(enc(left), enc(right)),
\* with left = i and right = j; the call reads the classes only and is made
\* on the buffers whose two values are 0
PbsCall ==
    /\ pc = "kernel"
    /\ input[1][1] = 0 /\ input[2][1] = 0
    /\ LET acc == double_ct_acc(vs[1].class, vs[2].class)
       IN  \E x \in 0..(message_modulus - 1) :
             out' = [op |-> "pbs", x |-> x,
                     ct |-> keyswitch_programmable_bootstrap(Encrypt(x), acc)]
    /\ pc' = "returned"
    /\ UNCHANGED <<sorterVars, distVars, keyVars, par, tags>>

\* cmp_at(i, j) on the two-item EncCmp buffer
CmpAtCall ==
    /\ pc = "kernel"
    /\ \E i \in 0..1 : \E j \in 0..1 :
         /\ LET c == EncCmpAt([vs |-> vs, cmp_count |-> cmp_count], i, j)
            IN  vs' = c.vs /\ cmp_count' = c.cmp_count
         /\ log' = Append(log, CmpOp(i, j))
    /\ pc' = "returned"
    /\ UNCHANGED <<impl, k, net, ip, input, twin, out, distVars, keyVars, par, tags>>

NextKernel == MinCall \/ ArgMinCall \/ PbsCall \/ CmpAtCall

SpecKernel == InitKernel /\ [][NextKernel]_vars

\* C3: min on encryptions of a, b in [0, p/2) decrypts to min(a, b).
C3_MinCorrect ==
    out.op = "min" => Decrypt(out.ct) = Min2(input[1][1], input[2][1])

\* min returned for a > b > 0: the value of the second operand
C3_Witness ==
    out.op = "min" /\ input[1][1] > input[2][1] /\ input[2][1] > 0
      /\ Decrypt(out.ct) = input[2][1]

\* C4 as stated: arg_min decrypts to i if a <= b and to j otherwise.
C4_ArgMinAsStated ==
    out.op = "arg_min" =>
        Decrypt(out.ct) = (IF input[1][1] <= input[2][1] THEN input[1][2] ELSE input[2][2])

\* C4 amended: arg_min decrypts to i if a < b and to j otherwise; on a tie
\* a = b the result is j.
C4_ArgMinCorrect ==
    out.op = "arg_min" =>
        Decrypt(out.ct) = (IF input[1][1] < input[2][1] THEN input[1][2] ELSE input[2][2])

\* arg_min returned on a tie with different labels: the label j
C4_Witness ==
    out.op = "arg_min" /\ input[1][1] = input[2][1] /\ input[1][2] # input[2][2]
      /\ Decrypt(out.ct) = input[2][2]

\* C5: the bootstrap of enc(x) against double_ct_acc(left, right) decrypts to
\* left when x < p/2 and to right when x >= p/2 (so to v when left = right = v).
C5_TruthTable ==
    out.op = "pbs" =>
        Decrypt(out.ct) = (IF out.x < message_modulus \div 2 THEN input[1][2] ELSE input[2][2])

\* a lookup in the upper half with left # right returned right
C5_Witness ==
    out.op = "pbs" /\ out.x >= message_modulus \div 2 /\ input[1][2] # input[2][2]
      /\ Decrypt(out.ct) = input[2][2]

\* C9 as stated: after cmp_at(i, j) on values a, b item i holds min(a, b), item j
\* holds max(a, b) = a + b - min(a, b), the class at i is the class of i when
\* a <= b (of j otherwise) and the class at j is class_i + class_j minus it.
C9_CmpAtAsStated ==
    pc = "returned" /\ log # <<>> /\ log[1].i # log[1].j =>
        LET x == input[log[1].i + 1]
            y == input[log[1].j + 1]
            lo == DecryptItem(vs[log[1].i + 1])
            hi == DecryptItem(vs[log[1].j + 1])
        IN  /\ lo[1] = Min2(x[1], y[1])
            /\ hi[1] = x[1] + y[1] - Min2(x[1], y[1])
            /\ lo[2] = (IF x[1] <= y[1] THEN x[2] ELSE y[2])
            /\ hi[2] = x[2] + y[2] - lo[2]

\* C9 amended: as C9, but the class at i is the class of i when a < b and the
\* class of j when a >= b (on a tie the two classes change places).
C9_CmpAtCorrect ==
    pc = "returned" /\ log # <<>> /\ log[1].i # log[1].j =>
        LET x == input[log[1].i + 1]
            y == input[log[1].j + 1]
            lo == DecryptItem(vs[log[1].i + 1])
            hi == DecryptItem(vs[log[1].j + 1])
        IN  /\ lo[1] = Min2(x[1], y[1])
            /\ hi[1] = x[1] + y[1] - Min2(x[1], y[1])
            /\ lo[2] = (IF x[1] < y[1] THEN x[2] ELSE y[2])
            /\ hi[2] = x[2] + y[2] - lo[2]

\* cmp_at(0, 1) returned on a tie with different classes: the classes changed
\* places
C9_Witness ==
    /\ pc = "returned" /\ log = <<CmpOp(0, 1)>>
    /\ input[1][1] = input[2][1] /\ input[1][2] # input[2][2]
    /\ DecryptItem(vs[1]) = input[2] /\ DecryptItem(vs[2]) = input[1]

----------------------------------------------------------------------------
(* Encrypted runs: BatcherSort::new_k(EncCmp over enc_vec(pairs), k).sort() *)

\* the (value, class) lists of test_enc_sort
EncSortCases ==
    { << <<1, 1>>, <<0, 0>>, <<2, 2>>, <<3, 3>> >>,
      << <<2, 2>>, <<2, 2>>, <<1, 1>>, <<3, 3>> >>,
      << <<1, 1>>, <<2, 2>>, <<3, 3>>, <<0, 0>> >> }

InitEncWith(lens, ks, pairs) ==
    \E len \in lens : \E kk \in ks : \E xs \in [1..len -> pairs] :
        /\ kk <= len
        /\ vs = enc_vec(xs) /\ input = xs
        /\ k = kk
        /\ net = SortOps(len, kk)

InitEnc ==
    /\ pc = "sort"
    /\ impl = "enc"
    /\ cmp_count = 0
    /\ ip = 0
    /\ log = <<>>
    /\ twin = NoTwin
    /\ out = NoOut /\ NoDist
    /\ \/ InitEncWith(1..EncMaxN, 1..EncMaxN, {<<0, 1>>, <<1, 2>>, <<1, 3>>})
       \/ InitEncWith({WideN}, {WideK}, {<<0, 1>>, <<1, 2>>})
       \/ \E xs \in EncSortCases :
            /\ vs = enc_vec(xs) /\ input = xs
            /\ k = 1
            /\ net = SortOps(Len(xs), 1)

\* the sorter calls cmp_at on the encrypted buffer
EncCmpStep ==
    /\ pc = "sort" /\ impl = "enc"
    /\ ip < Len(net)
    /\ net[ip + 1].op = "cmp"
    /\ LET c == EncCmpAt([vs |-> vs, cmp_count |-> cmp_count],
                         net[ip + 1].i, net[ip + 1].j)
       IN  vs' = c.vs /\ cmp_count' = c.cmp_count
    /\ ip' = ip + 1
    /\ log' = Append(log, net[ip + 1])
    /\ UNCHANGED <<pc, impl, k, net, input, twin, out, distVars, keyVars, par, tags>>

\* the sorter calls swap on the encrypted buffer
EncSwapStep ==
    /\ pc = "sort" /\ impl = "enc"
    /\ ip < Len(net)
    /\ net[ip + 1].op = "swap"
    /\ LET c == EncSwap([vs |-> vs, cmp_count |-> cmp_count],
                        net[ip + 1].i, net[ip + 1].j)
       IN  vs' = c.vs /\ cmp_count' = c.cmp_count
    /\ ip' = ip + 1
    /\ log' = Append(log, net[ip + 1])
    /\ UNCHANGED <<pc, impl, k, net, input, twin, out, distVars, keyVars, par, tags>>

NextEnc == EncCmpStep \/ EncSwapStep \/ SortReturn

SpecEnc == InitEnc /\ [][NextEnc]_vars

Values(pairs) == [t \in 1..Len(pairs) |-> pairs[t][1]]

\* C7: when the encrypted sort returns, positions [0,k) decrypt to the k
\* smallest values in ascending order, each with a class that was paired with
\* that value in the input (for k = 1: a pair of minimum value).
C7_EncTopK ==
    pc = "sorted" /\ impl = "enc" =>
        LET d == DecryptAll(vs)
        IN  /\ Values(Take(d, k)) = Take(Sorted(Values(input)), k)
            /\ \A t \in 1..k : \E u \in 1..Len(input) : d[t] = input[u]

----------------------------------------------------------------------------
(* Distance engine: setup_with_data, make_query, compute_distances *)

Max2(a, b) == IF a > b THEN a ELSE b

Zeros(len) == [t \in 1..len |-> 0]

Reverse(v) == [t \in 1..Len(v) |-> v[Len(v) + 1 - t]]

RECURSIVE MaxLen(_)
MaxLen(data) == IF data = <<>> THEN 0 ELSE Max2(Len(Head(data)), MaxLen(Tail(data)))

\* sum of s[1..i] as an unbounded integer
RECURSIVE SumIntRange(_, _, _)
SumIntRange(s, lo, hi) ==
    IF lo > hi THEN 0
    ELSE IF lo = hi THEN s[lo]
    ELSE SumIntRange(s, lo, (lo + hi) \div 2) + SumIntRange(s, (lo + hi) \div 2 + 1, hi)

SumInt(s, i) == SumIntRange(s, 1, i)

\* setup_with_data: gamma is the longest row; rows are reversed and followed
\* by N - gamma zeros
setup_with_data(data) ==
    LET gamma == MaxLen(data)
    IN  [gamma |-> gamma,
         data |-> [r \in 1..Len(data) |->
                      Reverse(data[r]) \o Zeros(polynomial_size - gamma)]]

\* the first plaintext list without the scaling by delta
QueryPtUnscaled(tgt) ==
    [t \in 1..polynomial_size |-> IF t <= Len(tgt) THEN tgt[t] % WordMod ELSE 0]

\* make_query, first plaintext list: target and padding, each times delta
QueryPt(tgt) ==
    [t \in 1..polynomial_size |-> IF t <= Len(tgt) THEN WMul(tgt[t], delta) ELSE 0]

\* make_query, sum_sqr: sum of x.wrapping_mul(x * delta) over the first list
QuerySumSqr(tgt) ==
    SumW([t \in 1..polynomial_size |-> WMul(QueryPt(tgt)[t], WMul(QueryPt(tgt)[t], delta))],
         polynomial_size)

\* make_query, second plaintext list: sum_sqr at index gamma - 1
QueryPt2(tgt) ==
    [t \in 1..polynomial_size |-> IF t = Len(tgt) THEN QuerySumSqr(tgt) ELSE 0]

\* make_query: the two plaintext lists (encrypted without noise)
make_query(tgt) == <<QueryPt(tgt), QueryPt2(tgt)>>

\* an unchecked *, + of make_query leaves the word range
QueryOverflows(tgt) ==
    \/ \E t \in 1..Len(tgt) : tgt[t] * delta >= WordMod
    \/ \E t \in 1..Len(tgt) : QueryPt(tgt)[t] * delta >= WordMod
    \/ SumInt([t \in 1..polynomial_size |->
                  WMul(QueryPt(tgt)[t], WMul(QueryPt(tgt)[t], delta))],
              polynomial_size) >= WordMod

\* sum of the squared entries of a stored row
SumSquares(m) == SumInt([t \in 1..Len(m) |-> m[t] * m[t]], Len(m))

\* compute_distances for one stored row m: c2 - 2 * m * c, the coefficient of
\* X^(gamma - 1), plus delta * (p - sum m^2)
RowDistance(m, c, c2, gamma) ==
    LET prod == polynomial_wrapping_mul(c, m)
        coeff == WAdd(WNeg(WMul(prod[gamma], 2)), c2[gamma])
        m2 == WMul(delta, (WordMod + message_modulus - (SumSquares(m) % WordMod)) % WordMod)
    IN  WAdd(coeff, m2)

compute_distances(srv, c, c2) ==
    [r \in 1..Len(srv.data) |-> RowDistance(srv.data[r], c, c2, srv.gamma)]

\* the unsigned p - sum m^2 of compute_distances goes below zero
DistanceOverflows(srv) ==
    \E r \in 1..Len(srv.data) : SumSquares(srv.data[r]) > message_modulus

\* squared Euclidean distance of two integer vectors of the same length
SqDist(q, m) ==
    SumInt([t \in 1..Len(q) |-> (q[t] - m[t]) * (q[t] - m[t])], Len(q))

\* the models and targets of the distance runs: every single row with every
\* target of its length, the input of test_compute_distance, the empty model and the empty row, rows and targets
\* of length N - 1, N and N + 1, two rows of equal or different lengths, and
\* rows whose squared entries sum to more than p
DistCases ==
    UNION {{<< <<m>>, q >> : m \in [1..g -> 0..MaxEntry], q \in [1..g -> 0..MaxTarget]} :
              g \in 1..MaxGamma}
    \cup {<< << <<0, 1, 0, 0>> >>, <<2, 0, 0, 0>> >>}
    \cup {<< <<>>, q >> : q \in {<<>>} \cup [1..1 -> 0..MaxTarget]}
    \cup {<< << <<>> >>, <<0>> >>}
    \cup {<< <<Zeros(l)>>, Zeros(t) >> :
              l \in (polynomial_size - 1)..(polynomial_size + 1),
              t \in (polynomial_size - 1)..(polynomial_size + 1)}
    \cup {<< <<m1, m2>>, q >> : m1 \in [1..2 -> 0..MaxEntry],
                                m2 \in [1..1 -> 0..MaxEntry] \cup [1..2 -> 0..MaxEntry],
                                q \in [1..2 -> 0..MaxTarget]}
    \cup {<< <<m>>, q >> : m \in [1..1 -> {message_modulus \div 2}],
                           q \in [1..1 -> 0..MaxTarget]}

InitDist ==
    \E c \in DistCases : \E b \in {"release", "debug"} :
        /\ pc = "setup"
        /\ impl = "none" /\ vs = <<>> /\ cmp_count = 0 /\ k = 0
        /\ net = <<>> /\ ip = 0 /\ input = <<>> /\ log = <<>>
        /\ twin = NoTwin /\ out = NoOut
        /\ build = b
        /\ rows = c[1]
        /\ target = c[2]
        /\ server = NoServer
        /\ query = <<>>
        /\ distances = <<>>
        /\ key_file = NoFile /\ key_log = <<>> /\ par = <<>> /\ tags = <<>>

\* setup_with_data(params, rows): the padding length N - gamma is unsigned
SetupWithData ==
    /\ pc = "setup"
    /\ IF MaxLen(rows) > polynomial_size
       THEN pc' = "setup_aborted" /\ UNCHANGED server
       ELSE pc' = "ready" /\ server' = setup_with_data(rows)
    /\ UNCHANGED <<sorterVars, out, build, rows, target, query, distances, keyVars, par, tags>>

\* client.make_query(target): N - gamma is unsigned, gamma < N is asserted,
\* index gamma - 1 is written
MakeQuery ==
    /\ pc = "ready"
    /\ IF \/ Len(target) >= polynomial_size
          \/ Len(target) = 0
          \/ build = "debug" /\ QueryOverflows(target)
       THEN pc' = "query_aborted" /\ UNCHANGED query
       ELSE pc' = "queried" /\ query' = make_query(target)
    /\ UNCHANGED <<sorterVars, out, build, rows, target, server, distances, keyVars, par, tags>>

\* a stored row whose length is not N (the polynomial product requires equal
\* sizes), or the unsigned gamma - 1 with gamma = 0
DistanceMisfit(srv) ==
    \E r \in 1..Len(srv.data) :
        Len(srv.data[r]) # polynomial_size \/ srv.gamma = 0

\* server.compute_distances(glwe, glwe2)
ComputeDistances ==
    /\ pc = "queried"
    /\ IF DistanceMisfit(server) \/ (build = "debug" /\ DistanceOverflows(server))
       THEN pc' = "distances_aborted" /\ UNCHANGED distances
       ELSE pc' = "computed" /\ distances' = compute_distances(server, query[1], query[2])
    /\ UNCHANGED <<sorterVars, out, build, rows, target, server, query, keyVars, par, tags>>

NextDist == SetupWithData \/ MakeQuery \/ ComputeDistances

SpecDist == InitDist /\ [][NextDist]_vars

\* C6: for a model row m and a target q of equal length, with wrapping word
\* arithmetic, the first ciphertext returned by compute_distances decodes to
\* (||q - m||^2 + p) mod p (5 for m = [0,1,0,0], q = [2,0,0,0]).
C6_DistanceCorrect ==
    pc = "computed" /\ build = "release" /\ Len(rows) >= 1 /\ Len(rows[1]) = Len(target) =>
        Decrypt(distances[1]) = (SqDist(target, rows[1]) + message_modulus) % message_modulus

----------------------------------------------------------------------------
(* Persisted keys: read_or_gen_keys *)

\* gen_keys(param): a client key carrying its parameters and the matching
\* server key; id tells one generation from another
gen_keys(param, id) ==
    <<[kind |-> "client", parameters |-> param, id |-> id],
      [kind |-> "server", parameters |-> param, id |-> id]>>

\* bincode::deserialize_from(..).unwrap() twice: a client key, then a server key
Deserializes(blob) ==
    /\ Len(blob) >= 2
    /\ blob[1].kind = "client"
    /\ blob[2].kind = "server"

\* read_or_gen_keys without the assert_eq on the parameters
read_or_gen_keys_unchecked(file, param, id) ==
    IF file.exists
    THEN IF ~Deserializes(file.blob)
         THEN [outcome |-> "aborted", file |-> file, keys |-> <<>>]
         ELSE [outcome |-> "loaded", file |-> file,
               keys |-> <<file.blob[1], file.blob[2]>>]
    ELSE [outcome |-> "generated",
          file |-> [exists |-> TRUE, blob |-> gen_keys(param, id)],
          keys |-> gen_keys(param, id)]

\* read_or_gen_keys(param) on the file contents `file`; id names the keys a
\* generation would produce
read_or_gen_keys(file, param, id) ==
    IF file.exists
    THEN IF ~Deserializes(file.blob)
         THEN [outcome |-> "aborted", file |-> file, keys |-> <<>>]
         ELSE IF file.blob[1].parameters # param
         THEN [outcome |-> "aborted", file |-> file, keys |-> <<>>]
         ELSE [outcome |-> "loaded", file |-> file,
               keys |-> <<file.blob[1], file.blob[2]>>]
    ELSE [outcome |-> "generated",
          file |-> [exists |-> TRUE, blob |-> gen_keys(param, id)],
          keys |-> gen_keys(param, id)]

\* the key file before the first call: absent, empty, cut after the client
\* key, or written by an earlier run for some parameters
KeyFiles ==
    {NoFile, [exists |-> TRUE, blob |-> <<>>]}
    \cup {[exists |-> TRUE, blob |-> <<gen_keys(P, 0)[1]>>] : P \in 1..NumParams}
    \cup {[exists |-> TRUE, blob |-> gen_keys(P, 0)] : P \in 1..NumParams}

InitKeys ==
    \E f \in KeyFiles :
        /\ pc = "keys"
        /\ impl = "none" /\ vs = <<>> /\ cmp_count = 0 /\ k = 0
        /\ net = <<>> /\ ip = 0 /\ input = <<>> /\ log = <<>>
        /\ twin = NoTwin /\ out = NoOut
        /\ build = "release" /\ rows = <<>> /\ target = <<>>
        /\ server = NoServer /\ query = <<>> /\ distances = <<>>
        /\ key_file = f /\ key_log = <<>> /\ par = <<>> /\ tags = <<>>

\* one call read_or_gen_keys(param), by this or a later process
ReadOrGenKeys ==
    /\ pc = "keys"
    /\ Len(key_log) < MaxKeyCalls
    /\ \E param \in 1..NumParams :
        LET res == read_or_gen_keys(key_file, param, Len(key_log) + 1)
        IN  /\ key_file' = res.file
            /\ key_log' = Append(key_log,
                   [param |-> param, before |-> key_file, after |-> res.file,
                    outcome |-> res.outcome, keys |-> res.keys])
    /\ UNCHANGED <<pc, sorterVars, out, distVars, par, tags>>

NextKeys == ReadOrGenKeys

SpecKeys == InitKeys /\ [][NextKeys]_vars

\* the file holds keys generated for parameters P
HoldsKeysFor(file, P) ==
    /\ file.exists
    /\ Deserializes(file.blob)
    /\ Len(file.blob) = 2
    /\ file.blob[1].parameters = P

\* C12: in any sequence of read_or_gen_keys calls, a call that finds keys
\* stored for P aborts and leaves the file unchanged when asked for P' # P,
\* and returns the stored client and server keys, without generating, when
\* asked for P; keys are generated and written, client key first, only when
\* the file cannot be read.
C12_KeyBlob ==
    \A n \in 1..Len(key_log) :
        LET e == key_log[n]
        IN  /\ \A P \in 1..NumParams :
                HoldsKeysFor(e.before, P) =>
                    /\ e.after = e.before
                    /\ IF e.param = P
                       THEN e.outcome = "loaded" /\ e.keys = e.before.blob
                       ELSE e.outcome = "aborted" /\ e.keys = <<>>
            /\ e.outcome = "generated" <=> ~e.before.exists
            /\ e.outcome = "generated" =>
                   /\ e.after.exists
                   /\ e.after.blob = e.keys
                   /\ Len(e.keys) = 2
                   /\ e.keys[1].kind = "client" /\ e.keys[1].parameters = e.param
                   /\ e.keys[2].kind = "server"
            /\ n < Len(key_log) => key_log[n + 1].before = e.after

\* a run that generated keys, later loaded them, and was refused them for
\* other parameters
C12_Witness ==
    /\ \E n \in 1..Len(key_log) : key_log[n].outcome = "generated"
    /\ \E n \in 1..Len(key_log) :
           key_log[n].outcome = "loaded" /\ key_log[n].keys[1].id > 0
    /\ \E n \in 1..Len(key_log) :
           /\ key_log[n].outcome = "aborted"
           /\ \E P \in 1..NumParams :
                  P # key_log[n].param /\ HoldsKeysFor(key_log[n].before, P)

----------------------------------------------------------------------------
(* Parallel executor: the calls of one layer run concurrently, each under the
   locks of its two slots; the layers follow one another *)

\* the layer being executed
CurLayer == net[par.layer]

\* slots locked by call o of the current layer
Held(o) ==
    IF par.phase[o] = "one" THEN {CurLayer[o].i}
    ELSE IF par.phase[o] = "both" THEN {CurLayer[o].i, CurLayer[o].j}
    ELSE {}

\* slot s is locked by a call other than o
HeldByOther(s, o) == \E o2 \in 1..Len(CurLayer) : o2 # o /\ s \in Held(o2)

StartLayer(l) ==
    [layer |-> l,
     phase |-> IF l <= Len(net) THEN [o \in 1..Len(net[l]) |-> "idle"] ELSE <<>>]

\* sequential execution of a list of calls
RECURSIVE RunOps(_, _)
RunOps(c, ops) == IF ops = <<>> THEN c ELSE RunOps(ClearApply(c, Head(ops)), Tail(ops))

ParCases ==
    {<<len, kk>> : len \in 1..ParMaxN, kk \in 1..ParMaxN}
    \cup {<<ParWideN, ParWideN \div 2>>}

InitPar ==
    \E c \in ParCases : \E xs \in [1..c[1] -> 0..1] :
        /\ c[2] <= c[1]
        /\ pc = "par"
        /\ impl = "clear"
        /\ vs = xs
        /\ cmp_count = 0
        /\ k = c[2]
        /\ net = SortLayers(c[1], c[2])
        /\ ip = 0
        /\ input = xs
        /\ log = <<>>
        /\ twin = NoTwin
        /\ out = NoOut
        /\ build = "release" /\ rows = <<>> /\ target = <<>>
        /\ server = NoServer /\ query = <<>> /\ distances = <<>>
        /\ key_file = NoFile /\ key_log = <<>> /\ tags = <<>>
        /\ par = [layer |-> 1,
                  phase |-> IF SortLayers(c[1], c[2]) = <<>> THEN <<>>
                            ELSE [o \in 1..Len(SortLayers(c[1], c[2])[1]) |-> "idle"]]

\* a worker locks the first slot of its call
ParLockFirst ==
    /\ pc = "par" /\ par.layer <= Len(net)
    /\ \E o \in 1..Len(CurLayer) :
        /\ par.phase[o] = "idle"
        /\ ~HeldByOther(CurLayer[o].i, o)
        /\ par' = [par EXCEPT !.phase[o] = "one"]
    /\ UNCHANGED <<pc, sorterVars, out, distVars, keyVars, tags>>

\* a worker locks the second slot of its call
ParLockSecond ==
    /\ pc = "par" /\ par.layer <= Len(net)
    /\ \E o \in 1..Len(CurLayer) :
        /\ par.phase[o] = "one"
        /\ ~HeldByOther(CurLayer[o].j, o)
        /\ par' = [par EXCEPT !.phase[o] = "both"]
    /\ UNCHANGED <<pc, sorterVars, out, distVars, keyVars, tags>>

\* a worker holding both slots runs its call and unlocks them
ParRun ==
    /\ pc = "par" /\ par.layer <= Len(net)
    /\ \E o \in 1..Len(CurLayer) :
        /\ par.phase[o] = "both"
        /\ LET c == ClearApply([vs |-> vs, cmp_count |-> cmp_count], CurLayer[o])
           IN  vs' = c.vs /\ cmp_count' = c.cmp_count
        /\ log' = Append(log, CurLayer[o])
        /\ par' = [par EXCEPT !.phase[o] = "done"]
    /\ UNCHANGED <<pc, impl, k, net, ip, input, twin, out, distVars, keyVars, tags>>

\* every call of the layer has finished: the next layer starts
ParNextLayer ==
    /\ pc = "par" /\ par.layer <= Len(net)
    /\ \A o \in 1..Len(CurLayer) : par.phase[o] = "done"
    /\ par' = StartLayer(par.layer + 1)
    /\ UNCHANGED <<pc, sorterVars, out, distVars, keyVars, tags>>

\* par_sort returns
ParReturn ==
    /\ pc = "par" /\ par.layer > Len(net)
    /\ pc' = "par_done"
    /\ UNCHANGED <<sorterVars, out, distVars, keyVars, par, tags>>

NextPar == ParLockFirst \/ ParLockSecond \/ ParRun \/ ParNextLayer \/ ParReturn

SpecPar == InitPar /\ [][NextPar]_vars

\* some step of the parallel run can be taken
ParCanStep ==
    \/ par.layer > Len(net)
    \/ \A o \in 1..Len(CurLayer) : par.phase[o] = "done"
    \/ \E o \in 1..Len(CurLayer) :
        \/ par.phase[o] = "idle" /\ ~HeldByOther(CurLayer[o].i, o)
        \/ par.phase[o] = "one" /\ ~HeldByOther(CurLayer[o].j, o)
        \/ par.phase[o] = "both"

\* C13: while the calls of one layer run concurrently, each under the locks
\* of its two slots, no two calls of the layer share an index, no worker
\* waits for a slot held by another call of the layer, and the run is never
\* stuck, for every (n, k).
C13_SlotExclusive ==
    pc = "par" /\ par.layer <= Len(net) =>
        /\ \A o1, o2 \in 1..Len(CurLayer) :
               o1 # o2 => {CurLayer[o1].i, CurLayer[o1].j}
                            \cap {CurLayer[o2].i, CurLayer[o2].j} = {}
        /\ \A o \in 1..Len(CurLayer) :
               /\ par.phase[o] = "idle" => ~HeldByOther(CurLayer[o].i, o)
               /\ par.phase[o] = "one" => ~HeldByOther(CurLayer[o].j, o)
        /\ ParCanStep

\* two calls of one layer hold their slots at the same time
C13_Witness ==
    /\ pc = "par" /\ par.layer <= Len(net)
    /\ \E o1, o2 \in 1..Len(CurLayer) :
           o1 # o2 /\ par.phase[o1] = "both" /\ par.phase[o2] = "both"

\* C14: whatever the order and interleaving of the calls inside each layer,
\* with the layers kept in order, the run ends with the contents of vs[0..k]
\* that the sequential execution produces.
C14_Confluent ==
    pc = "par_done" =>
        Take(vs, k) = Take(RunOps([vs |-> input, cmp_count |-> 0],
                                  SortOps(Len(input), k)).vs, k)

\* a finished run in which a later call of a layer ran before an earlier one
C14_Witness ==
    /\ pc = "par_done"
    /\ log # SortOps(Len(input), k)
    /\ vs # input

\* C11: setup_with_data aborts when the model is empty and when the longest
\* row length gamma is at least N, the boundary gamma = N included.
C11_SetupAborts ==
    (rows = <<>> \/ MaxLen(rows) >= polynomial_size) => pc \in {"setup", "setup_aborted"}

\* plaintext of a ciphertext modulo 2p has its padding bit clear
PaddingClear(ct) == DecryptWithPadding(ct) < message_modulus

\* C15: every LWE ciphertext the core produces from inputs in range has
\* padding bit zero: the special_sub difference, the sum raw_add(x_i, x_j) and
\* the recovered max of cmp_at, and each output of compute_distances after
\* its delta * (p - sum m^2) correction.
C15_PaddingZero ==
    /\ pc = "returned" /\ Len(log) = 1 =>
           LET a == Encrypt(input[log[1].i + 1][1])
               b == Encrypt(input[log[1].j + 1][1])
           IN  /\ PaddingClear(min_diff(a, b))
               /\ PaddingClear(raw_add(a, b))
               /\ PaddingClear(raw_sub(raw_add(a, b), min(a, b)))
    /\ pc = "computed" =>
           \A r \in 1..Len(distances) : PaddingClear(distances[r])

\* C16: inside min(a, b) the looked-up difference is (b - a) + p/2, so that
\* a <= b gives a difference in [p/2, p) and a > b one in [0, p/2), with the
\* accumulator built as left = a, right = b.
C16_DirectionAsStated ==
    pc = "returned" /\ out.op = "min" =>
        LET a == input[1][1]
            b == input[2][1]
            diff == DecryptWithPadding(min_diff(vs[1].value, vs[2].value))
        IN  /\ diff = (b - a) + message_modulus \div 2
            /\ a <= b => diff >= message_modulus \div 2 /\ diff < message_modulus
            /\ a > b => diff >= 0 /\ diff < message_modulus \div 2
            /\ out.ct = keyswitch_programmable_bootstrap(
                            min_diff(vs[1].value, vs[2].value),
                            double_ct_acc(vs[1].value, vs[2].value))

\* C16, as the code has it: inside min(a, b) the looked-up difference is
\* (a - b) + p/2, so that a < b gives a difference in [0, p/2), which selects
\* left = a, and a >= b one in [p/2, p), which selects right = b.
C16_DirectionCorrect ==
    pc = "returned" /\ out.op = "min" =>
        LET a == input[1][1]
            b == input[2][1]
            diff == DecryptWithPadding(min_diff(vs[1].value, vs[2].value))
        IN  /\ diff = (a - b) + message_modulus \div 2
            /\ a < b => diff >= 0 /\ diff < message_modulus \div 2
            /\ a >= b => diff >= message_modulus \div 2 /\ diff < message_modulus
            /\ out.ct = keyswitch_programmable_bootstrap(
                            min_diff(vs[1].value, vs[2].value),
                            double_ct_acc(vs[1].value, vs[2].value))
            /\ Decrypt(out.ct) = (IF a < b THEN a ELSE b)

\* min was called on a < b and on a > b
C16_Witness ==
    /\ pc = "returned" /\ out.op = "min"
    /\ input[1][1] > input[2][1]
    /\ DecryptWithPadding(min_diff(vs[1].value, vs[2].value)) > message_modulus \div 2

\* entry t (from 0) of a row, entries past its end counted as 0
EntryOr0(m, t) == IF t >= 0 /\ t < Len(m) THEN m[t + 1] ELSE 0

\* setup_with_data has returned a server
SetupReturned == pc \notin {"setup", "setup_aborted"}

\* make_query has been called
QueryCalled == pc \notin {"setup", "setup_aborted", "ready"}

\* C17: for every row m handed to setup_with_data, rows shorter than the
\* longest included, the stored polynomial has length N, coefficient i equal
\* to m_{gamma-1-i} for i < gamma (missing entries counted as 0) and 0 for
\* i >= gamma, so that the coefficient of X^(gamma-1) of m(X) * q(X) is
\* sum_k m_k * q_k for a target q of length gamma.
C17_ReversedStorage ==
    SetupReturned =>
        /\ server.gamma = MaxLen(rows)
        /\ Len(server.data) = Len(rows)
        /\ \A r \in 1..Len(rows) :
            /\ Len(server.data[r]) = polynomial_size
            /\ \A i \in 0..(polynomial_size - 1) :
                   server.data[r][i + 1] =
                       (IF i < server.gamma
                        THEN EntryOr0(rows[r], server.gamma - 1 - i) ELSE 0)
            /\ Len(target) = server.gamma /\ server.gamma >= 1
                 /\ server.gamma < polynomial_size =>
                   polynomial_wrapping_mul(QueryPtUnscaled(target), server.data[r])[server.gamma]
                       = SumInt([t \in 1..server.gamma |->
                                    EntryOr0(rows[r], t - 1) * target[t]], server.gamma)
                           % WordMod

C20_NoOverflowError ==
    /\ pc # "distances_aborted"
    /\ pc = "computed" =>
        /\ Len(distances) = Len(rows)
        /\ \A r \in 1..Len(rows) :
               Len(rows[r]) = Len(target) =>
                   Decrypt(distances[r]) = SqDist(target, rows[r]) % message_modulus

----------------------------------------------------------------------------
(* Noise tags: which items of an EncCmp buffer are fresh or PBS-refreshed,
   and how many comparisons each item has been through *)

FreshTag == [fresh |-> TRUE, touched |-> 0]

\* tags after cmp_at with the refreshed output put at j and the raw one at i
TagCmpAtExchanged(tg, i, j, i_wins) ==
    LET win == IF i_wins THEN tg[i + 1] ELSE tg[j + 1]
        lose == IF i_wins THEN tg[j + 1] ELSE tg[i + 1]
        t1 == [tg EXCEPT ![j + 1] = [fresh |-> TRUE, touched |-> win.touched + 1]]
    IN  [t1 EXCEPT ![i + 1] = [fresh |-> FALSE, touched |-> lose.touched + 1]]

\* tags after EncCmp::cmp_at(i, j): slot i receives the bootstrapped min of
\* the winning item, slot j the max recovered by raw add and sub
TagCmpAt(tg, i, j, i_wins) ==
    LET win == IF i_wins THEN tg[i + 1] ELSE tg[j + 1]
        lose == IF i_wins THEN tg[j + 1] ELSE tg[i + 1]
        t1 == [tg EXCEPT ![i + 1] = [fresh |-> TRUE, touched |-> win.touched + 1]]
    IN  [t1 EXCEPT ![j + 1] = [fresh |-> FALSE, touched |-> lose.touched + 1]]

InitNoise ==
    /\ pc = "sort"
    /\ impl = "enc"
    /\ cmp_count = 0
    /\ ip = 0
    /\ log = <<>>
    /\ twin = NoTwin
    /\ out = NoOut
    /\ build = "release" /\ rows = <<>> /\ target = <<>>
    /\ server = NoServer /\ query = <<>> /\ distances = <<>>
    /\ key_file = NoFile /\ key_log = <<>> /\ par = <<>>
    /\ InitEncWith(1..NoiseMaxN, 1..NoiseMaxN, {<<0, 1>>, <<1, 2>>})
    /\ tags = [t \in 1..Len(vs) |-> FreshTag]

\* the sorter calls cmp_at on the tagged encrypted buffer
NoiseCmpStep ==
    /\ pc = "sort" /\ impl = "enc"
    /\ ip < Len(net)
    /\ net[ip + 1].op = "cmp"
    /\ LET c == EncCmpAt([vs |-> vs, cmp_count |-> cmp_count],
                         net[ip + 1].i, net[ip + 1].j)
       IN  vs' = c.vs /\ cmp_count' = c.cmp_count
    /\ tags' = TagCmpAt(tags, net[ip + 1].i, net[ip + 1].j,
                        Decrypt(vs[net[ip + 1].i + 1].value)
                          < Decrypt(vs[net[ip + 1].j + 1].value))
    /\ ip' = ip + 1
    /\ log' = Append(log, net[ip + 1])
    /\ UNCHANGED <<pc, impl, k, net, input, twin, out, distVars, keyVars, par>>

\* the sorter calls swap on the tagged encrypted buffer
NoiseSwapStep ==
    /\ pc = "sort" /\ impl = "enc"
    /\ ip < Len(net)
    /\ net[ip + 1].op = "swap"
    /\ LET c == EncSwap([vs |-> vs, cmp_count |-> cmp_count],
                        net[ip + 1].i, net[ip + 1].j)
       IN  vs' = c.vs /\ cmp_count' = c.cmp_count
    /\ tags' = SwapAt(tags, net[ip + 1].i, net[ip + 1].j)
    /\ ip' = ip + 1
    /\ log' = Append(log, net[ip + 1])
    /\ UNCHANGED <<pc, impl, k, net, input, twin, out, distVars, keyVars, par>>

NextNoise == NoiseCmpStep \/ NoiseSwapStep \/ SortReturn

SpecNoise == InitNoise /\ [][NextNoise]_vars

\* ceil(log2 n)
CeilLog2(n) == CHOOSE e \in 0..n : Pow2(e) >= n /\ (e = 0 \/ Pow2(e - 1) < n)

\* the log^2 n bound on the comparisons one item goes through
TouchBound(n) == (CeilLog2(n) + 1) * (CeilLog2(n) + 1)

\* C19: with sorter inputs and min outputs tagged fresh and max outputs
\* tagged unrefreshed, at the end of the sort no item in positions [0,k) is
\* an unrefreshed max output, and no item is touched by more than
\* O(log^2 n) comparisons, for every (n,k).
C19_WindowFreshAsStated ==
    /\ pc = "sorted" => \A t \in 1..k : tags[t].fresh
    /\ \A t \in 1..Len(tags) : tags[t].touched <= TouchBound(Len(tags))

\* C19, as the code has it: cmp_at(i, j) leaves a refreshed item in slot i
\* and an unrefreshed max output in slot j; at the end of the sort position 0
\* is never an unrefreshed max output, while the positions 1..k-1 of the
\* window can be (k >= 2); no item is touched by more than (ceil(log2 n)+1)^2
\* comparisons.
C19_WindowFresh ==
    /\ pc = "sort" /\ ip > 0 /\ net[ip].op = "cmp" =>
           tags[net[ip].i + 1].fresh /\ ~tags[net[ip].j + 1].fresh
    /\ Len(tags) >= 1 => tags[1].fresh
    /\ pc = "sorted" /\ Len(tags) = 2 /\ k = 2 => ~tags[2].fresh
    /\ \A t \in 1..Len(tags) : tags[t].touched <= TouchBound(Len(tags))

\* a finished sort with k >= 2 whose window holds an unrefreshed max output
C19_Witness ==
    /\ pc = "sorted" /\ k >= 2 /\ Len(tags) >= 3
    /\ tags[1].fresh /\ tags[1].touched >= 2
    /\ \E t \in 2..k : ~tags[t].fresh

----------------------------------------------------------------------------
(* One cmp_at call on a three-item EncCmp buffer, any pair of positions *)

InitCmp ==
    \E a \in 0..(message_modulus \div 2 - 1) : \E b \in 0..(message_modulus \div 2 - 1) :
    \E i \in 0..Min2(message_modulus - 1, MaxClass) :
    \E j \in 0..Min2(message_modulus - 1, MaxClass) :
        /\ pc = "cmp"
        /\ impl = "enc"
        /\ vs = enc_vec(<< <<a, i>>, <<b, j>>,
                           <<message_modulus \div 2 - 1, message_modulus - 1>> >>)
        /\ cmp_count = 0
        /\ k = 1
        /\ net = <<>>
        /\ ip = 0
        /\ input = << <<a, i>>, <<b, j>>,
                      <<message_modulus \div 2 - 1, message_modulus - 1>> >>
        /\ log = <<>>
        /\ twin = NoTwin
        /\ out = NoOut /\ NoDist

\* cmp_at(i, j) for any two positions of the buffer, i = j included
CmpAtAnyCall ==
    /\ pc = "cmp"
    /\ \E i \in 0..(Len(vs) - 1) : \E j \in 0..(Len(vs) - 1) :
         /\ LET c == EncCmpAt([vs |-> vs, cmp_count |-> cmp_count], i, j)
            IN  vs' = c.vs /\ cmp_count' = c.cmp_count
         /\ log' = Append(log, CmpOp(i, j))
    /\ pc' = "cmp_done"
    /\ UNCHANGED <<impl, k, net, ip, input, twin, out, distVars, keyVars, par, tags>>

NextCmp == CmpAtAnyCall

SpecCmp == InitCmp /\ [][NextCmp]_vars

\* C21: for ClearCmp and for EncCmp, after any sequence of cmp_at and swap
\* calls cmp_count() is the number of cmp_at calls made so far; swap never
\* changes it.
C21_CounterCounts ==
    cmp_count = Cardinality({t \in 1..Len(log) : log[t].op = "cmp"})

\* C22: every cmp_at(i, j) on an EncCmp buffer with values in [0, p/2) and
\* classes in [0, p), ties and i = j included, leaves the multiset of
\* decrypted (value, class) pairs at positions {i, j} unchanged and every
\* other position untouched, and on the values it does what ClearCmp::cmp_at
\* does.
C22_PairsTravel ==
    pc = "cmp_done" =>
        LET i == log[1].i + 1
            j == log[1].j + 1
            after == DecryptAll(vs)
        IN  /\ \A t \in 1..Len(vs) :
                   t \notin {i, j} => vs[t] = enc_vec(input)[t] /\ after[t] = input[t]
            /\ IF i = j THEN after[i] = input[i]
               ELSE SeqToBag(<<after[i], after[j]>>) = SeqToBag(<<input[i], input[j]>>)
            /\ Values(after) =
                   ClearCmpAt([vs |-> Values(input), cmp_count |-> 0],
                              log[1].i, log[1].j).vs

\* a tie between two items of different classes, compared with the third
\* item left alone
C22_Witness ==
    /\ pc = "cmp_done"
    /\ log[1].i = 1 /\ log[1].j = 0
    /\ input[1][1] = input[2][1] /\ input[1][2] # input[2][2]
    /\ DecryptItem(vs[1]) = input[2] /\ DecryptItem(vs[2]) = input[1]
    /\ DecryptItem(vs[3]) = input[3]

====
